---- MODULE Spec2Model ----
(***************************************************************************)
(* Model of mediacore/model/podcasts.py: the `podcasts` table, the         *)
(* Podcast entity with its slug validator, and the two deferred aggregate  *)
(* columns media_count and media_count_published.                          *)
(*                                                                         *)
(* Strings are sequences of one-character strings.  slugify lives in       *)
(* mediacore/model/__init__.py; it is modelled from its description in     *)
(* spec.md (lower-casing, whitespace and punctuation collapsed to one      *)
(* separator).  The Media table lives in mediacore/model/media.py; only    *)
(* the columns the two aggregate queries read are modelled.                *)
(***************************************************************************)
EXTENDS Integers, Sequences, FiniteSets, TLC

\* ---------------------------------------------------------------- bounds
NumPodcasts == 2        \* podcast ids 1..NumPodcasts
MaxLen == 2             \* longest raw string assigned to a slug
MaxMedia == 2           \* media ids 1..MaxMedia
MaxTime == 1            \* timestamps 0..MaxTime

PodcastIds == 1..NumPodcasts
MediaIds == 1..MaxMedia
Times == 0..MaxTime

\* upper case, lower case, whitespace, punctuation, separator
Chars == {"A", "a", " ", "!", "-"}
Raw == UNION {[1..n -> Chars] : n \in 0..MaxLen}

NoObj == <<"NoObj">>    \* no Podcast instance in the session for this id
NoRow == <<"NoRow">>    \* no row in the podcasts table for this id
NULL == -1              \* SQL NULL in a timestamp column
Unloaded == -1          \* a deferred column that has not been loaded yet

VARIABLES
    slug,       \* slug[p]: the slug attribute of the Podcast instance p, or NoObj
    assigned,   \* assigned[p]: the last raw value assigned to instance p's slug
    stored,     \* stored[p]: the slug column of row p of `podcasts`, or NoRow
    error,      \* the exception the last operation raised to its caller
    media,      \* media[m]: row m of the Media table, or NoMediaRow
    now,        \* the database's current_timestamp
    loaded,     \* the loaded Podcast instance whose deferred columns are read
    last        \* the last operation performed

vars == <<slug, assigned, stored, error, media, now, loaded, last>>

\* ------------------------------------------------------------- slugify
Lower(c) == IF c = "A" THEN "a" ELSE c

ToSeparator(c) == IF c \in {" ", "!"} THEN "-" ELSE c

RECURSIVE CollapseSeparators(_)
CollapseSeparators(s) ==
    IF Len(s) <= 1 THEN s
    ELSE IF s[1] = "-" /\ s[2] = "-" THEN CollapseSeparators(Tail(s))
    ELSE <<s[1]>> \o CollapseSeparators(Tail(s))

\* a slugify that collapses the separators of its input before it has turned
\* the whitespace into separators
slugify_collapse_first(string) ==
    LET c == CollapseSeparators(string)
    IN  [i \in 1..Len(c) |-> ToSeparator(Lower(c[i]))]

slugify(string) ==
    CollapseSeparators([i \in 1..Len(string) |-> ToSeparator(Lower(string[i]))])

\* a validator that stores the value as given
validate_slug_raw(s) == s

\* @validates('slug'): the value the attribute receives when s is assigned
validate_slug(s) == slugify(s)

\* ------------------------------------------------------- podcasts table
\* a table without the unique constraint on slug
UniqueViolation_none(p, s) == FALSE

\* Column('slug', unique=True): writing s to row p collides with another row
UniqueViolation(p, s) ==
    \E q \in PodcastIds : q # p /\ stored[q] # NoRow /\ stored[q] = s

SlugInit ==
    /\ slug = [p \in PodcastIds |-> NoObj]
    /\ assigned = [p \in PodcastIds |-> NoObj]
    /\ stored = [p \in PodcastIds |-> NoRow]
    /\ error = "none"

\* Podcast(); podcast.slug = v; DBSession.add(podcast)
Create(p, v) ==
    /\ slug[p] = NoObj
    /\ stored[p] = NoRow
    /\ slug' = [slug EXCEPT ![p] = validate_slug(v)]
    /\ assigned' = [assigned EXCEPT ![p] = v]
    /\ error' = "none"
    /\ last' = [op |-> "create", id |-> p]
    /\ UNCHANGED <<stored, media, now, loaded>>

\* podcast.slug = v on an instance of the session
SetSlug(p, v) ==
    /\ slug[p] # NoObj
    /\ slug' = [slug EXCEPT ![p] = validate_slug(v)]
    /\ assigned' = [assigned EXCEPT ![p] = v]
    /\ error' = "none"
    /\ last' = [op |-> "set", id |-> p]
    /\ UNCHANGED <<stored, media, now, loaded>>

\* the unit of work writes instance p: INSERT when it has no row, else UPDATE.
\* A unique violation is raised to the caller and writes nothing; what the
\* caller then does with the instance is its own code.
Flush(p) ==
    /\ slug[p] # NoObj
    /\ stored[p] # slug[p]
    /\ IF UniqueViolation(p, slug[p])
       THEN /\ error' = "IntegrityError"
            /\ UNCHANGED stored
       ELSE /\ error' = "none"
            /\ stored' = [stored EXCEPT ![p] = slug[p]]
    /\ last' = [op |-> IF stored[p] = NoRow THEN "insert" ELSE "update", id |-> p]
    /\ UNCHANGED <<slug, assigned, media, now, loaded>>

\* DBSession.delete(podcast) of a stored podcast, and the write of it
Delete(p) ==
    /\ stored[p] # NoRow
    /\ stored' = [stored EXCEPT ![p] = NoRow]
    /\ slug' = [slug EXCEPT ![p] = NoObj]
    /\ assigned' = [assigned EXCEPT ![p] = NoObj]
    /\ error' = "none"
    /\ last' = [op |-> "delete", id |-> p]
    /\ UNCHANGED <<media, now, loaded>>

SlugNext ==
    \/ \E p \in PodcastIds, v \in Raw : Create(p, v)
    \/ \E p \in PodcastIds, v \in Raw : SetSlug(p, v)
    \/ \E p \in PodcastIds : Flush(p)
    \/ \E p \in PodcastIds : Delete(p)

\* ----------------------------------------------------------- Media table
NoMediaRow ==
    [podcast_id |-> 0, reviewed |-> FALSE, encoded |-> FALSE,
     publishable |-> FALSE, publish_on |-> 0, publish_until |-> NULL]

MediaRows == {m \in MediaIds : media[m] # NoMediaRow}

\* a total count that leaves out the join condition on podcast_id
media_count_all(p) == Cardinality(MediaRows)

\* select count(media.id) where media.podcast_id = podcasts.id
media_count(p) ==
    Cardinality({m \in MediaRows : media[m].podcast_id = p})

\* a published count whose lower time bound is strict
media_count_published_strict(p) ==
    Cardinality({m \in MediaRows :
        /\ media[m].podcast_id = p
        /\ media[m].reviewed = TRUE
        /\ media[m].encoded = TRUE
        /\ media[m].publishable = TRUE
        /\ media[m].publish_on < now
        /\ \/ media[m].publish_until = NULL
           \/ media[m].publish_until >= now})

\* a published count that leaves out the join condition on podcast_id
media_count_published_all(p) ==
    Cardinality({m \in MediaRows :
        /\ media[m].reviewed = TRUE
        /\ media[m].encoded = TRUE
        /\ media[m].publishable = TRUE
        /\ media[m].publish_on <= now
        /\ \/ media[m].publish_until = NULL
           \/ media[m].publish_until >= now})

\* select count(media.id) where and_(podcast_id = podcasts.id, reviewed,
\* encoded, publishable, publish_on <= current_timestamp,
\* or_(publish_until is NULL, publish_until >= current_timestamp))
media_count_published(p) ==
    Cardinality({m \in MediaRows :
        /\ media[m].podcast_id = p
        /\ media[m].reviewed = TRUE
        /\ media[m].encoded = TRUE
        /\ media[m].publishable = TRUE
        /\ media[m].publish_on <= now
        /\ \/ media[m].publish_until = NULL
           \/ media[m].publish_until >= now})

\* ------------------------------------------------- operations on Media
MediaStep(m) ==
    /\ last' = [op |-> "media", id |-> 0]
    /\ UNCHANGED <<slug, assigned, stored, error, now, loaded>>

\* a new episode of podcast p, not yet reviewed, encoded or publishable
InsertMedia(m, p, t) ==
    /\ media[m] = NoMediaRow
    /\ media' = [media EXCEPT ![m] =
            [podcast_id |-> p, reviewed |-> FALSE, encoded |-> FALSE,
             publishable |-> FALSE, publish_on |-> t, publish_until |-> NULL]]
    /\ MediaStep(m)

DeleteMedia(m) ==
    /\ media[m] # NoMediaRow
    /\ media' = [media EXCEPT ![m] = NoMediaRow]
    /\ MediaStep(m)

SetReviewed(m) ==
    /\ media[m] # NoMediaRow
    /\ media' = [media EXCEPT ![m].reviewed = ~media[m].reviewed]
    /\ MediaStep(m)

SetEncoded(m) ==
    /\ media[m] # NoMediaRow
    /\ media' = [media EXCEPT ![m].encoded = ~media[m].encoded]
    /\ MediaStep(m)

SetPublishable(m) ==
    /\ media[m] # NoMediaRow
    /\ media' = [media EXCEPT ![m].publishable = ~media[m].publishable]
    /\ MediaStep(m)

SetPublishOn(m, t) ==
    /\ media[m] # NoMediaRow
    /\ media[m].publish_on # t
    /\ media' = [media EXCEPT ![m].publish_on = t]
    /\ MediaStep(m)

SetPublishUntil(m, t) ==
    /\ media[m] # NoMediaRow
    /\ media[m].publish_until # t
    /\ media' = [media EXCEPT ![m].publish_until = t]
    /\ MediaStep(m)

\* current_timestamp advances
Tick ==
    /\ now < MaxTime
    /\ now' = now + 1
    /\ last' = [op |-> "tick", id |-> 0]
    /\ UNCHANGED <<slug, assigned, stored, error, media, loaded>>

\* ------------------------------------------ the deferred count columns
NoInst == [id |-> 0, media_count |-> Unloaded, media_count_published |-> Unloaded]

\* deferred=True: a load of the row leaves both columns unloaded
LoadedColumns(p) ==
    [id |-> p, media_count |-> Unloaded, media_count_published |-> Unloaded]

\* an attribute that runs its query on every access
DeferredGet_always(cached, live) == live

\* access to a deferred column: its query runs when the column is unloaded,
\* and the instance keeps the value
DeferredGet(cached, live) == IF cached = Unloaded THEN live ELSE cached

\* Podcast.query.get(p), or a refresh of the instance after it was expired
Load(p) ==
    /\ stored[p] # NoRow
    /\ loaded' = LoadedColumns(p)
    /\ last' = [op |-> "load", id |-> p]
    /\ UNCHANGED <<slug, assigned, stored, error, media, now>>

\* podcast.media_count
ReadMediaCount ==
    /\ loaded.id # 0
    /\ loaded' = [loaded EXCEPT !.media_count =
            DeferredGet(loaded.media_count, media_count(loaded.id))]
    /\ last' = [op |-> "media_count", id |-> loaded.id]
    /\ UNCHANGED <<slug, assigned, stored, error, media, now>>

\* podcast.media_count_published
ReadMediaCountPublished ==
    /\ loaded.id # 0
    /\ loaded' = [loaded EXCEPT !.media_count_published =
            DeferredGet(loaded.media_count_published,
                        media_count_published(loaded.id))]
    /\ last' = [op |-> "media_count_published", id |-> loaded.id]
    /\ UNCHANGED <<slug, assigned, stored, error, media, now>>

Init ==
    /\ SlugInit
    /\ media = [m \in MediaIds |-> NoMediaRow]
    /\ now = 0
    /\ loaded = NoInst
    /\ last = [op |-> "init", id |-> 0]

Spec == Init /\ [][SlugNext]_vars

\* one Podcast instance, whose slug is assigned, written and deleted
ValidateNext ==
    LET p == CHOOSE q \in PodcastIds : \A r \in PodcastIds : q <= r
    IN  \/ \E v \in Raw : Create(p, v)
        \/ \E v \in Raw : SetSlug(p, v)
        \/ Flush(p)
        \/ Delete(p)

ValidateSpec == Init /\ [][ValidateNext]_vars

\* the podcasts whose episodes are counted: stored, with distinct slugs
SlugOf(p) == [i \in 1..p |-> "a"]

CountInit ==
    /\ slug = [p \in PodcastIds |-> SlugOf(p)]
    /\ assigned = [p \in PodcastIds |-> SlugOf(p)]
    /\ stored = [p \in PodcastIds |-> SlugOf(p)]
    /\ error = "none"
    /\ media = [m \in MediaIds |-> NoMediaRow]
    /\ now = 0
    /\ loaded = NoInst
    /\ last = [op |-> "init", id |-> 0]

MediaNext ==
    \/ \E m \in MediaIds, p \in PodcastIds, t \in Times : InsertMedia(m, p, t)
    \/ \E m \in MediaIds : DeleteMedia(m)
    \/ \E m \in MediaIds : SetReviewed(m)
    \/ \E m \in MediaIds : SetEncoded(m)
    \/ \E m \in MediaIds : SetPublishable(m)
    \/ \E m \in MediaIds, t \in Times : SetPublishOn(m, t)
    \/ \E m \in MediaIds, t \in Times \cup {NULL} : SetPublishUntil(m, t)
    \/ Tick

\* the Media table changes and the clock advances; the counts are the queries
CountSpec == CountInit /\ [][MediaNext]_vars

DeferredNext ==
    \/ MediaNext
    \/ \E p \in PodcastIds : Load(p)
    \/ ReadMediaCount
    \/ ReadMediaCountPublished

\* as CountSpec, with a Podcast instance that is loaded and whose counts are read
DeferredSpec == CountInit /\ [][DeferredNext]_vars

\* ------------------------------------------------------------ properties

\* C1: the slug held by every Podcast instance is slugify of the last value
\* assigned to it (at creation or by a later edit), and a row just written
\* for it holds that same slugified value.
C1_SlugIsSlugified ==
    \A p \in PodcastIds :
        /\ slug[p] # NoObj => slug[p] = slugify(assigned[p])
        /\ (last.id = p /\ last.op \in {"insert", "update"} /\ error = "none")
              => stored[p] = slugify(assigned[p])

\* an edit of an existing podcast whose normalized slug differs from the
\* value assigned
C1_Witness ==
    \E p \in PodcastIds :
        /\ last = [op |-> "update", id |-> p]
        /\ error = "none"
        /\ stored[p] # assigned[p]
        /\ Len(stored[p]) = MaxLen

\* C2: slugify is idempotent on every value assigned to a slug, and assigning
\* a podcast's slug to itself would store the same slug again.
C2_Idempotent ==
    \A p \in PodcastIds :
        slug[p] # NoObj =>
            /\ slugify(slugify(assigned[p])) = slugify(assigned[p])
            /\ validate_slug(slug[p]) = slug[p]

\* the slug of a stored podcast was assigned to it again
C2_Witness ==
    \E p \in PodcastIds :
        /\ last = [op |-> "set", id |-> p]
        /\ stored[p] # NoRow
        /\ assigned[p] = stored[p]
        /\ slug[p] = stored[p]
        /\ Len(slug[p]) >= 1

C4_DuplicateInsertFails ==
    [][\A p \in PodcastIds :
          ( /\ last' = [op |-> "insert", id |-> p]
            /\ slug[p] # NoObj
            /\ stored[p] = NoRow
            /\ \E q \in PodcastIds :
                  q # p /\ stored[q] # NoRow /\ stored[q] = slugify(assigned[p]) )
          => (error' = "IntegrityError" /\ stored' = stored)]_vars

\* a failed insert of a value that differs from the one the stored podcast
\* was given, and normalizes to the same slug
C4_Witness ==
    \E p, q \in PodcastIds :
        /\ last = [op |-> "insert", id |-> p]
        /\ error = "IntegrityError"
        /\ stored[p] = NoRow
        /\ stored[q] # NoRow
        /\ assigned[q] # assigned[p]
        /\ stored[q] = slugify(assigned[p])

\* C5 as stated: an assignment that collides with the slug of another stored
\* podcast yields a slug distinct from it.
C5_SuffixOnCollision ==
    \A p \in PodcastIds :
        (last.id = p /\ last.op \in {"create", "set"}) =>
            \A q \in PodcastIds : (q # p /\ stored[q] # NoRow) => slug[p] # stored[q]

\* C5 amended: no suffix is appended.  An instance whose write was rejected
\* holds slugify of the value assigned, equal to the slug of another stored
\* podcast, and its row is not that value; the rows' slugs stay distinct.
C5_RejectedNotSuffixed ==
    /\ \A p, q \in PodcastIds :
          (p # q /\ stored[p] # NoRow /\ stored[q] # NoRow) => stored[p] # stored[q]
    /\ \A p \in PodcastIds :
          (last.id = p /\ last.op \in {"insert", "update"} /\ error = "IntegrityError")
              => /\ slug[p] = slugify(assigned[p])
                 /\ stored[p] # slug[p]
                 /\ \E q \in PodcastIds : q # p /\ stored[q] = slug[p]

\* the edit of a stored podcast to the slug of another one was rejected
C5_Witness ==
    \E p \in PodcastIds :
        /\ last = [op |-> "update", id |-> p]
        /\ error = "IntegrityError"
        /\ stored[p] # NoRow

\* C6: for every podcast, at every time and in every state of the Media table,
\* the published count is at most the total count.
C6_PublishedAtMostTotal ==
    \A p \in PodcastIds : media_count_published(p) <= media_count(p)

\* a podcast with a published episode and one that is not published
C6_Witness ==
    \E p \in PodcastIds :
        /\ media_count_published(p) >= 1
        /\ media_count_published(p) < media_count(p)
        /\ now = MaxTime

\* C7: the published count of P is the number of rows of P that are reviewed,
\* encoded and publishable with publish_on <= now and publish_until null or
\* >= now; equally, the rows of P less those that fail one of the conditions.
C7_PublishedPredicate ==
    \A p \in PodcastIds :
        LET Of == {m \in MediaIds : media[m] # NoMediaRow /\ media[m].podcast_id = p}
            Fails(m) ==
                \/ ~media[m].reviewed
                \/ ~media[m].encoded
                \/ ~media[m].publishable
                \/ media[m].publish_on > now
                \/ (media[m].publish_until # NULL /\ media[m].publish_until < now)
            n[k \in 0..MaxMedia] ==
                IF k = 0 THEN 0
                ELSE n[k - 1] + (IF k \in Of /\ ~Fails(k) THEN 1 ELSE 0)
        IN  /\ media_count_published(p) = n[MaxMedia]
            /\ media_count_published(p) = Cardinality(Of) - Cardinality({m \in Of : Fails(m)})

\* one episode counted with both time bounds equal to now, beside an episode
\* of the same podcast that is not counted
C7_Witness ==
    \E p \in PodcastIds, m \in MediaIds :
        /\ media[m].podcast_id = p
        /\ media[m].publish_on = now
        /\ media[m].publish_until = now
        /\ now > 0
        /\ media_count(p) >= 2
        /\ media_count_published(p) = 1
        /\ \E q \in PodcastIds : q # p /\ media_count(q) = 0

\* C8: the total count of P is the number of Media rows whose podcast_id is
\* P.id, whatever their state; a podcast without rows counts zero twice.
C8_TotalCount ==
    \A p \in PodcastIds :
        LET n[k \in 0..MaxMedia] ==
                IF k = 0 THEN 0
                ELSE n[k - 1] + (IF media[k].podcast_id = p THEN 1 ELSE 0)
        IN  /\ media_count(p) = n[MaxMedia]
            /\ (\A m \in MediaIds : media[m].podcast_id # p)
                  => (media_count(p) = 0 /\ media_count_published(p) = 0)

\* a podcast without episodes beside one whose episodes are in different states
C8_Witness ==
    \E p, q \in PodcastIds :
        /\ media_count(p) = 0
        /\ media_count(q) >= 2
        /\ media_count_published(q) = 1

\* C9 as stated: the value a read returns is the count of the Media table as
\* it is at that read.
C9_NeverStale ==
    /\ last.op = "media_count" =>
          loaded.media_count =
              Cardinality({m \in MediaIds : media[m].podcast_id = loaded.id})
    /\ last.op = "media_count_published" =>
          loaded.media_count_published = media_count_published(loaded.id)

\* C9 amended: the first read of a count on a loaded instance returns the
\* count of the Media table as it is at that read.
C9_FirstReadIsLive ==
    [][ /\ (last'.op = "media_count" /\ loaded.media_count = Unloaded) =>
              loaded'.media_count =
                  Cardinality({m \in MediaIds : media[m].podcast_id = loaded.id})
        /\ (last'.op = "media_count_published"
                /\ loaded.media_count_published = Unloaded) =>
              loaded'.media_count_published =
                  Cardinality({m \in MediaIds :
                      /\ media[m].podcast_id = loaded.id
                      /\ media[m].reviewed
                      /\ media[m].encoded
                      /\ media[m].publishable
                      /\ media[m].publish_on <= now
                      /\ (media[m].publish_until = NULL
                            \/ media[m].publish_until >= now)})
      ]_vars

\* the published count was read first, before the total, and is live
C9_Witness ==
    /\ last.op = "media_count_published"
    /\ loaded.media_count = Unloaded
    /\ loaded.media_count_published >= 1
    /\ loaded.media_count_published = media_count_published(loaded.id)
    /\ media_count(loaded.id) > loaded.media_count_published

\* C10: a load leaves both counts unloaded; the first access computes the
\* count; until the next load the instance keeps the value first computed,
\* whatever happens to the Media table.
C10_DeferredAndKept ==
    [][ /\ last'.op = "load" =>
              (loaded'.media_count = Unloaded
                  /\ loaded'.media_count_published = Unloaded)
        /\ (last'.op = "media_count" /\ loaded.media_count = Unloaded) =>
              (loaded'.media_count # Unloaded
                  /\ loaded'.media_count = media_count(loaded.id))
        /\ (last'.op = "media_count_published"
                /\ loaded.media_count_published = Unloaded) =>
              (loaded'.media_count_published # Unloaded
                  /\ loaded'.media_count_published = media_count_published(loaded.id))
        /\ (last'.op # "load" /\ loaded.media_count # Unloaded) =>
              loaded'.media_count = loaded.media_count
        /\ (last'.op # "load" /\ loaded.media_count_published # Unloaded) =>
              loaded'.media_count_published = loaded.media_count_published
      ]_vars

\* a read that returned the value first computed although the table changed
C10_Witness ==
    /\ last.op = "media_count"
    /\ loaded.media_count # Unloaded
    /\ loaded.media_count # media_count(loaded.id)
    /\ loaded.media_count_published # Unloaded
    /\ loaded.media_count_published # media_count_published(loaded.id)

====
